---- MODULE Spec2Model ----
(***************************************************************************)
(* Model of backend/main.py: the /api/kafka handler (kafka_agent), the     *)
(* completion parser (ask_openai_for_code), the executor (run_code_safely),*)
(* the topic extractor (extract_topic_from_code) and the process-wide      *)
(* last_topic slot, handled by concurrent worker threads.                  *)
(*                                                                         *)
(* Text is a sequence of tokens.  A token is one character (a backtick, a  *)
(* brace, a quote, a blank, a newline, a letter) or an indivisible chunk   *)
(* of text with no blank, quote or backtick in it ("topic_name", "42").    *)
(***************************************************************************)
EXTENDS Integers, Sequences, FiniteSets, TLC

\* ------------------------------------------------------------------ bounds
MaxRequests == 2

Threads == {1, 2}

\* ------------------------------------------------------------ Python values
None == [t |-> "none", v |-> <<>>]
Absent == [t |-> "absent", v |-> <<>>]
StrVal(s) == [t |-> "str", v |-> s]
IntVal(s) == [t |-> "int", v |-> s]

\* str of a value
PyStr(x) == IF x.t = "none" THEN <<"None">> ELSE x.v

\* truth value: None, "" and 0 are falsy
Truthy(x) ==
  CASE x.t = "none" -> FALSE
    [] x.t = "absent" -> FALSE
    [] x.t = "str" -> x.v # <<>>
    [] x.t = "int" -> x.v # <<"0">>

\* ------------------------------------------------------------ str methods
\* the backtick character (the token is spelled out: it cannot be written
\* inside a TLA+ string)
Tick == "BACKTICK"

Whitespace == {" ", "\n"}

RECURSIVE LStripSet(_, _)
LStripSet(s, cs) ==
  IF s # <<>> /\ Head(s) \in cs THEN LStripSet(Tail(s), cs) ELSE s

RECURSIVE RStripSet(_, _)
RStripSet(s, cs) ==
  IF s # <<>> /\ s[Len(s)] \in cs THEN RStripSet(SubSeq(s, 1, Len(s) - 1), cs) ELSE s

\* s.strip with no argument
Strip(s) == RStripSet(LStripSet(s, Whitespace), Whitespace)

\* s.strip of the backtick character
StripTicks(s) == RStripSet(LStripSet(s, {Tick}), {Tick})

\* s.startswith
StartsWith(s, p) == Len(s) >= Len(p) /\ SubSeq(s, 1, Len(p)) = p

\* s.endswith
EndsWith(s, p) == Len(s) >= Len(p) /\ SubSeq(s, Len(s) - Len(p) + 1, Len(s)) = p

LowerChar(c) ==
  CASE c = "J" -> "j"
    [] c = "S" -> "s"
    [] c = "O" -> "o"
    [] c = "N" -> "n"
    [] OTHER -> c

\* s.lower
Lower(s) == [i \in 1..Len(s) |-> LowerChar(s[i])]

Fence == <<Tick, Tick, Tick>>
JsonTag == <<"j", "s", "o", "n">>

\* --------------------------------------------------- extract_topic_from_code
\* The pattern is  topic_name \s* = \s* ["']  ([^"']+)  ["'] .
DQ == "\""
SQ == "'"
Quotes == {DQ, SQ}

\* index of the first token at or after i that is not whitespace (\s*)
RECURSIVE SkipWs(_, _)
SkipWs(s, i) ==
  IF i <= Len(s) /\ s[i] \in Whitespace THEN SkipWs(s, i + 1) ELSE i

\* index of the first quote at or after i, Len(s) + 1 when there is none:
\* the end of the greedy run [^"']+
RECURSIVE RunEnd(_, _)
RunEnd(s, i) ==
  IF i <= Len(s) /\ s[i] \notin Quotes THEN RunEnd(s, i + 1) ELSE i

\* group 1 of a match of the pattern starting at index i, << >> when the
\* pattern does not match there (group 1 is never empty)
MatchAt(s, i) ==
  IF i > Len(s) \/ s[i] # "topic_name" THEN <<>>
  ELSE LET j == SkipWs(s, i + 1) IN
       IF j > Len(s) \/ s[j] # "=" THEN <<>>
       ELSE LET k == SkipWs(s, j + 1) IN
            IF k > Len(s) \/ s[k] \notin Quotes THEN <<>>
            ELSE LET m == RunEnd(s, k + 1) IN
                 IF m = k + 1 \/ m > Len(s) THEN <<>>
                 ELSE SubSeq(s, k + 1, m - 1)

\* re.search: the leftmost position where the pattern matches
RECURSIVE SearchFrom(_, _)
SearchFrom(s, i) ==
  IF i > Len(s) THEN None
  ELSE IF MatchAt(s, i) # <<>> THEN StrVal(MatchAt(s, i))
  ELSE SearchFrom(s, i + 1)

\* re.search raises TypeError when code is not a string
extract_topic_from_code(code) ==
  IF code.t # "str" THEN [raised |-> TRUE, value |-> None]
  ELSE [raised |-> FALSE, value |-> SearchFrom(code.v, 1)]

\* ------------------------------------------------------ generated programs
\* What exec does with a code text is the interpreter's business: each code
\* text the completion service can return is listed with the statements the
\* interpreter runs for it.
Stmt(op, arg) == [op |-> op, arg |-> arg]

TextA == <<"topic_name", " ", "=", " ", DQ, "a", DQ, "\n", "print(42)", "\n", "result=7">>
TextB == <<"topic_name", "=", SQ, "b", SQ, "\n", "result=None">>
TextW == <<"print()", "\n", "result=7">>
TextN == <<"pass">>
TextR == <<"result", "=", SQ, "<no result>", SQ>>
TextE == <<"topic_name", " ", "=", " ", DQ, "a", DQ, "\n", "raise ValueError(1)">>
TextX == <<"topic_name", "=", SQ, "b", SQ, "\n", "raise SystemExit">>
TextS == <<"topic_name", "=", DQ, "b", DQ, "\n", "def">>

NoResult == <<"<no result>">>
ErrorPrefix == <<"Error while executing AI code: ">>

Programs ==
  { [text |-> TextA, stmts |-> <<Stmt("assign", None), Stmt("print", StrVal(<<"42">>)), Stmt("set_result", IntVal(<<"7">>))>>],
    [text |-> TextB, stmts |-> <<Stmt("assign", None), Stmt("set_result", None)>>],
    [text |-> TextW, stmts |-> <<Stmt("print", StrVal(<<>>)), Stmt("set_result", IntVal(<<"7">>))>>],
    [text |-> TextN, stmts |-> <<Stmt("pass", None)>>],
    [text |-> TextR, stmts |-> <<Stmt("set_result", StrVal(NoResult))>>],
    [text |-> TextE, stmts |-> <<Stmt("assign", None), Stmt("raise", StrVal(<<"1">>))>>],
    [text |-> TextX, stmts |-> <<Stmt("assign", None), Stmt("exit", StrVal(<<>>))>>],
    [text |-> <<>>, stmts |-> <<Stmt("pass", None)>>],
    [text |-> TextS, stmts |-> <<Stmt("syntax_error", StrVal(<<"invalid syntax">>))>>] }

\* the statements exec runs for a code value; a code value that is not a
\* string makes exec raise TypeError before anything runs
StmtsOf(code) ==
  IF code.t # "str" THEN <<Stmt("raise", StrVal(<<"exec() arg 1 must be a string">>))>>
  ELSE (CHOOSE p \in Programs : p.text = code.v).stmts

\* ------------------------------------------------------------- json.loads
\* A JSON object is written  { member ... member } ; a member token stands
\* for one  "key": value  pair of the text.  "[]" is a JSON array.
Members ==
  [ x \in {"code:A", "code:B", "code:W", "code:N", "code:R", "code:E", "code:X",
           "code:S", "code:empty", "code:5", "explanation:hi"} |->
    CASE x = "code:A" -> [key |-> "code", val |-> StrVal(TextA)]
      [] x = "code:B" -> [key |-> "code", val |-> StrVal(TextB)]
      [] x = "code:W" -> [key |-> "code", val |-> StrVal(TextW)]
      [] x = "code:N" -> [key |-> "code", val |-> StrVal(TextN)]
      [] x = "code:R" -> [key |-> "code", val |-> StrVal(TextR)]
      [] x = "code:E" -> [key |-> "code", val |-> StrVal(TextE)]
      [] x = "code:X" -> [key |-> "code", val |-> StrVal(TextX)]
      [] x = "code:S" -> [key |-> "code", val |-> StrVal(TextS)]
      [] x = "code:empty" -> [key |-> "code", val |-> StrVal(<<>>)]
      [] x = "code:5" -> [key |-> "code", val |-> IntVal(<<"5">>)]
      [] x = "explanation:hi" -> [key |-> "explanation", val |-> StrVal(<<"hi">>)] ]

EmptyDict == [kind |-> "dict", code |-> Absent, explanation |-> Absent]
JsonList == [kind |-> "list", code |-> Absent, explanation |-> Absent]
JsonError == [kind |-> "error", code |-> Absent, explanation |-> Absent]

\* the members of an object read left to right, a later key replacing an
\* earlier one
RECURSIVE DictOf(_, _)
DictOf(ms, d) ==
  IF ms = <<>> THEN d
  ELSE LET m == Members[Head(ms)] IN
       DictOf(Tail(ms), IF m.key = "code" THEN [d EXCEPT !.code = m.val]
                        ELSE [d EXCEPT !.explanation = m.val])

\* json.loads skips whitespace around the document and rejects anything
\* else around it
json_loads(raw) ==
  LET doc == Strip(raw) IN
  IF doc = <<"[]">> THEN JsonList
  ELSE IF Len(doc) >= 2 /\ doc[1] = "{" /\ doc[Len(doc)] = "}"
          /\ \A i \in 2..(Len(doc) - 1) : doc[i] \in DOMAIN Members
       THEN DictOf(SubSeq(doc, 2, Len(doc) - 1), EmptyDict)
       ELSE JsonError

\* dict.get(key, default)
Get(v, default) == IF v.t = "absent" THEN default ELSE v

\* ------------------------------------------------------ ask_openai_for_code
\* the text of resp.choices[0].message.content after .strip
RawOf(content) == Strip(content)

\* the language tag compared without .lower
HandleWrappers_CaseSensitive(raw) ==
  IF StartsWith(raw, Fence)
  THEN LET r1 == StripTicks(raw)
           r2 == IF StartsWith(r1, JsonTag) THEN Strip(SubSeq(r1, 5, Len(r1))) ELSE r1
           r3 == IF EndsWith(r2, Fence) THEN Strip(SubSeq(r2, 1, Len(r2) - 3)) ELSE r2
       IN r3
  ELSE raw

\* removal of the code fence around the text
HandleWrappers(raw) ==
  IF StartsWith(raw, Fence)
  THEN LET r1 == StripTicks(raw)
           r2 == IF StartsWith(Lower(r1), JsonTag) THEN Strip(SubSeq(r1, 5, Len(r1))) ELSE r1
           r3 == IF EndsWith(r2, Fence) THEN Strip(SubSeq(r2, 1, Len(r2) - 3)) ELSE r2
       IN r3
  ELSE raw

\* the parsed completion, kind "error" when HTTPException 500 is raised
ask_openai_for_code(content) == json_loads(HandleWrappers(RawOf(content)))

\* ----------------------------------------------------------- run_code_safely
NoFault == [kind |-> "none", msg |-> <<>>]

\* the result variable preferred to the captured text
run_code_safely_ResultFirst(buf, result_var, flt) ==
  CASE flt.kind = "none" ->
         [raised |-> FALSE,
          value |-> IF result_var.t # "absent" THEN PyStr(result_var)
                    ELSE IF Strip(buf) # <<>> THEN Strip(buf) ELSE NoResult]
    [] flt.kind = "exception" ->
         [raised |-> FALSE, value |-> ErrorPrefix \o flt.msg]
    [] flt.kind = "exit" ->
         [raised |-> TRUE, value |-> <<>>]

\* the placeholder chosen with or instead of the default of dict.get
run_code_safely_OrPlaceholder(buf, result_var, flt) ==
  CASE flt.kind = "none" ->
         [raised |-> FALSE,
          value |-> IF Strip(buf) # <<>> THEN Strip(buf)
                    ELSE IF Truthy(result_var) THEN PyStr(result_var) ELSE NoResult]
    [] flt.kind = "exception" ->
         [raised |-> FALSE, value |-> ErrorPrefix \o flt.msg]
    [] flt.kind = "exit" ->
         [raised |-> TRUE, value |-> <<>>]

\* the value run_code_safely returns once the with block is left; raised
\* means the fault of the executed code leaves run_code_safely
run_code_safely(buf, result_var, flt) ==
  CASE flt.kind = "none" ->
         [raised |-> FALSE,
          value |-> IF Strip(buf) # <<>> THEN Strip(buf)
                    ELSE PyStr(Get(result_var, StrVal(NoResult)))]
    [] flt.kind = "exception" ->
         [raised |-> FALSE, value |-> ErrorPrefix \o flt.msg]
    [] flt.kind = "exit" ->
         [raised |-> TRUE, value |-> <<>>]

\* ------------------------------------------------- the completion service
Object(ms) == <<"{">> \o ms \o <<"}">>
Fenced(tag, sep, doc) == Fence \o tag \o sep \o doc \o sep \o Fence
Reply(content) == [fault |-> FALSE, content |-> content]

\* what openai.chat.completions.create can give back: a text, or a
\* transport or authentication error
Completions ==
  { Reply(Fenced(JsonTag, <<"\n">>, Object(<<"code:A", "explanation:hi">>))),
    Reply(Object(<<"code:B", "explanation:hi">>)),
    Reply(Object(<<"code:W">>)),
    Reply(Object(<<"code:N", "explanation:hi">>)),
    Reply(Object(<<"code:R">>)),
    Reply(Object(<<"code:E", "explanation:hi">>)),
    Reply(Object(<<"code:X">>)),
    Reply(Object(<<"code:S">>)),
    Reply(Object(<<"code:empty", "explanation:hi">>)),
    Reply(Object(<<"explanation:hi">>)),
    Reply(Object(<<"code:5">>)),
    Reply(<<"[]">>),
    Reply(<<"Sorry">>),
    [fault |-> TRUE, content |-> <<>>] }

\* ------------------------------------------------------------------- state
VARIABLES
  last_topic,        \* the global slot
  sys_stdout,        \* sys.stdout: Original, a thread's live buffer, or Stale
  nreq,              \* requests received so far
  pc,                \* where each worker thread is in kafka_agent
  remembered_topic,  \* the argument of ask_openai_for_code
  code,              \* ai_output.get("code")
  explanation,       \* ai_output.get("explanation", "")
  buffer,            \* the StringIO of the thread's run_code_safely call
  old_target,        \* what redirect_stdout puts back on exit
  ip,                \* the next statement of the executed code
  result_var,        \* local_vars.get("result")
  fault,             \* the fault the executed code raised
  result,            \* what run_code_safely returned
  extracted,         \* what extract_topic_from_code returned
  response,          \* status 200 with the payload, or status 500
  calls,             \* per request: calls made to each stage
  printed,           \* per request: the text its own code printed
  code_text,         \* per buffer: the text executed code printed into it
  start_order, exec_order, write_order, return_order,
                     \* the threads in the order they started, left
                     \* run_code_safely, wrote last_topic and returned
  last_written,      \* the topic of the latest write to last_topic and its thread
  seen_at_start,     \* last_written when the request started
  fn_in, fn_out      \* argument and value of a function applied on its own

vars == <<last_topic, sys_stdout, nreq, pc, remembered_topic, code, explanation,
          buffer, old_target, ip, result_var, fault, result, extracted, response,
          calls, printed, code_text, start_order, exec_order, write_order,
          return_order, last_written, seen_at_start, fn_in, fn_out>>

Original == 0
Stale == 0 - 1

NoCalls == [completion |-> 0, sandbox |-> 0, extractor |-> 0, writes |-> 0, reads |-> 0]
NoResponse == [status |-> 0, body |-> <<>>]
Error500 == [status |-> 500, body |-> <<>>]
Prompt == <<"retention?">>
NeverWritten == [topic |-> None, by |-> 0]
NothingSeen == [topic |-> None, completed |-> FALSE]

InitMain ==
  /\ last_topic = None
  /\ sys_stdout = Original
  /\ nreq = 0
  /\ pc = [t \in Threads |-> "idle"]
  /\ remembered_topic = [t \in Threads |-> None]
  /\ code = [t \in Threads |-> None]
  /\ explanation = [t \in Threads |-> None]
  /\ buffer = [t \in Threads |-> <<>>]
  /\ old_target = [t \in Threads |-> Original]
  /\ ip = [t \in Threads |-> 1]
  /\ result_var = [t \in Threads |-> Absent]
  /\ fault = [t \in Threads |-> NoFault]
  /\ result = [t \in Threads |-> <<>>]
  /\ extracted = [t \in Threads |-> None]
  /\ response = [t \in Threads |-> NoResponse]
  /\ calls = [t \in Threads |-> NoCalls]
  /\ printed = [t \in Threads |-> <<>>]
  /\ code_text = [t \in Threads |-> <<>>]
  /\ start_order = <<>>
  /\ exec_order = <<>>
  /\ write_order = <<>>
  /\ return_order = <<>>
  /\ last_written = NeverWritten
  /\ seen_at_start = [t \in Threads |-> NothingSeen]

Init ==
  /\ InitMain
  /\ fn_in = <<>>
  /\ fn_out = <<>>

\* s without the entries equal to t
Without(s, t) == SelectSeq(s, LAMBDA x : x # t)

\* sys.stdout.write: the text lands in the buffer sys.stdout points at
Written(text) ==
  IF sys_stdout \in Threads THEN [buffer EXCEPT ![sys_stdout] = @ \o text] ELSE buffer

\* x occurs in s
InSeq(s, x) == \E i \in 1..Len(s) : s[i] = x

\* x occurs before y in s
Before(s, x, y) == \E i, j \in 1..Len(s) : i < j /\ s[i] = x /\ s[j] = y

\* the argument left out of the call: the default of line 58 is used
RememberedArg_Default(slot) == None

\* line 135: remembered_topic=last_topic
RememberedArg(slot) == slot

\* the check of line 138 left out
HasCode_Always(c) == TRUE

\* line 138: if not code
HasCode(c) == Truthy(c)

\* the assignment of line 147 made without the test of line 146
Overwrite_Always(slot, ex) == ex

\* a slot that is only filled while it is empty
Overwrite_KeepFirst(slot, ex) == IF Truthy(ex) /\ ~Truthy(slot) THEN ex ELSE slot

\* lines 146-147: if extracted: last_topic = extracted
Overwrite(slot, ex) == IF Truthy(ex) THEN ex ELSE slot

\* a payload built from the topic the request extracted itself
TopicInUse_Extracted(slot, ex) == ex

\* line 152: "topic_in_use": last_topic
TopicInUse(slot, ex) == slot

\* line 135, argument evaluation: a thread takes a request and reads last_topic
Start(t) ==
  /\ pc[t] \in {"idle", "done", "failed"}
  /\ nreq < MaxRequests
  /\ nreq' = nreq + 1
  /\ pc' = [pc EXCEPT ![t] = "generating"]
  /\ remembered_topic' = [remembered_topic EXCEPT ![t] = RememberedArg(last_topic)]
  /\ code' = [code EXCEPT ![t] = None]
  /\ explanation' = [explanation EXCEPT ![t] = None]
  /\ buffer' = [buffer EXCEPT ![t] = <<>>]
  /\ old_target' = [old_target EXCEPT ![t] = Original]
  /\ ip' = [ip EXCEPT ![t] = 1]
  /\ result_var' = [result_var EXCEPT ![t] = Absent]
  /\ fault' = [fault EXCEPT ![t] = NoFault]
  /\ result' = [result EXCEPT ![t] = <<>>]
  /\ extracted' = [extracted EXCEPT ![t] = None]
  /\ response' = [response EXCEPT ![t] = NoResponse]
  /\ calls' = [calls EXCEPT ![t] = [NoCalls EXCEPT !.reads = 1]]
  /\ printed' = [printed EXCEPT ![t] = <<>>]
  /\ code_text' = [code_text EXCEPT ![t] = <<>>]
  /\ start_order' = Append(Without(start_order, t), t)
  /\ exec_order' = Without(exec_order, t)
  /\ write_order' = Without(write_order, t)
  /\ return_order' = Without(return_order, t)
  /\ seen_at_start' = [seen_at_start EXCEPT ![t] =
                          [topic |-> last_written.topic,
                           completed |-> /\ last_written.by \in Threads
                                         /\ \/ ~InSeq(write_order, last_written.by)
                                            \/ pc[last_written.by] = "done"]]
  /\ UNCHANGED <<last_topic, sys_stdout, last_written, fn_in, fn_out>>

\* the except clause swallowing the error and the handler going on
Fail_GoesOn(t) ==
  /\ pc' = [pc EXCEPT ![t] = "responding"]
  /\ response' = [response EXCEPT ![t] = Error500]
  /\ return_order' = Append(return_order, t)

\* the except clause of kafka_agent: HTTPException 500
Fail(t) ==
  /\ pc' = [pc EXCEPT ![t] = "failed"]
  /\ response' = [response EXCEPT ![t] = Error500]
  /\ return_order' = Append(return_order, t)

\* lines 89-112 and 136-139: the completion arrives, is logged and parsed
Generate(t, c) ==
  /\ pc[t] = "generating"
  /\ calls' = [calls EXCEPT ![t].completion = @ + 1]
  /\ IF c.fault
     THEN /\ Fail(t)
          /\ UNCHANGED <<buffer, code, explanation>>
     ELSE LET raw == RawOf(c.content)
              ai_output == ask_openai_for_code(c.content)
              got_code == Get(ai_output.code, None)
          IN /\ buffer' = Written(<<"AI RAW RESPONSE:", " ">> \o raw \o <<"\n">>)
             /\ IF ai_output.kind # "dict"
                THEN Fail(t) /\ UNCHANGED <<code, explanation>>
                ELSE /\ code' = [code EXCEPT ![t] = got_code]
                     /\ explanation' = [explanation EXCEPT ![t] =
                                          Get(ai_output.explanation, StrVal(<<>>))]
                     /\ IF HasCode(got_code)
                        THEN /\ pc' = [pc EXCEPT ![t] = "executing"]
                             /\ UNCHANGED <<response, return_order>>
                        ELSE Fail(t)
  /\ UNCHANGED <<last_topic, sys_stdout, nreq, remembered_topic, old_target, ip,
                 result_var, fault, result, extracted, printed, start_order,
                 exec_order, write_order, last_written, seen_at_start,
                 code_text, fn_in, fn_out>>

\* line 121, entering the with block: redirect_stdout saves sys.stdout and
\* points it at this call's buffer
EnterRedirect(t) ==
  /\ pc[t] = "executing"
  /\ calls' = [calls EXCEPT ![t].sandbox = @ + 1]
  /\ old_target' = [old_target EXCEPT ![t] = sys_stdout]
  /\ sys_stdout' = t
  /\ pc' = [pc EXCEPT ![t] = "in_exec"]
  /\ UNCHANGED <<last_topic, nreq, remembered_topic, code, explanation, buffer, ip,
                 result_var, fault, result, extracted, response, printed,
                 start_order, exec_order, write_order, return_order,
                 last_written, seen_at_start,
                 code_text, fn_in, fn_out>>

\* line 122: exec runs the next statement of the code
ExecStmt(t) ==
  /\ pc[t] = "in_exec"
  /\ LET stmts == StmtsOf(code[t])
         st == stmts[ip[t]]
         raises == st.op \in {"raise", "syntax_error", "exit"}
         text == st.arg.v \o <<"\n">>
     IN /\ ip' = [ip EXCEPT ![t] = @ + 1]
        /\ pc' = [pc EXCEPT ![t] = IF raises \/ ip[t] = Len(stmts)
                                   THEN "exiting" ELSE "in_exec"]
        /\ fault' = [fault EXCEPT ![t] =
                       CASE st.op \in {"raise", "syntax_error"} ->
                              [kind |-> "exception", msg |-> st.arg.v]
                         [] st.op = "exit" -> [kind |-> "exit", msg |-> <<>>]
                         [] OTHER -> @]
        /\ result_var' = [result_var EXCEPT ![t] =
                            IF st.op = "set_result" THEN st.arg ELSE @]
        /\ buffer' = IF st.op = "print" THEN Written(text) ELSE buffer
        /\ printed' = [printed EXCEPT ![t] = IF st.op = "print" THEN @ \o text ELSE @]
        /\ code_text' = IF st.op = "print" /\ sys_stdout \in Threads
                        THEN [code_text EXCEPT ![sys_stdout] = @ \o text]
                        ELSE code_text
  /\ UNCHANGED <<last_topic, sys_stdout, nreq, remembered_topic, code, explanation,
                 old_target, result, extracted, response, calls, start_order,
                 exec_order, write_order, return_order, last_written, seen_at_start,
                 fn_in, fn_out>>

\* line 121, leaving the with block, normally or by a fault: redirect_stdout
\* puts back what it saved
ExitRedirect(t) ==
  /\ pc[t] = "exiting"
  /\ sys_stdout' = old_target[t]
  /\ pc' = [pc EXCEPT ![t] = "after_exec"]
  /\ UNCHANGED <<last_topic, nreq, remembered_topic, code, explanation, buffer,
                 old_target, ip, result_var, fault, result, extracted, response,
                 calls, printed, start_order, exec_order, write_order,
                 return_order, last_written, seen_at_start,
                 code_text, fn_in, fn_out>>

\* a reference to the buffer of thread t once its call is over: nothing reads
\* that buffer again
Dead(target, t) == IF target = t THEN Stale ELSE target

\* lines 123-126: run_code_safely returns, or lets the fault through to
\* kafka_agent, whose except Exception does not stop it either
ReturnFromRun(t) ==
  /\ pc[t] = "after_exec"
  /\ LET out == run_code_safely(buffer[t], result_var[t], fault[t])
     IN IF out.raised
        THEN Fail(t) /\ UNCHANGED result
        ELSE /\ result' = [result EXCEPT ![t] = out.value]
             /\ pc' = [pc EXCEPT ![t] = "extracting"]
             /\ UNCHANGED <<response, return_order>>
  /\ exec_order' = Append(exec_order, t)
  /\ sys_stdout' = Dead(sys_stdout, t)
  /\ old_target' = [u \in Threads |-> Dead(old_target[u], t)]
  /\ UNCHANGED <<last_topic, nreq, remembered_topic, code, explanation, buffer, ip,
                 result_var, fault, extracted, calls, printed, start_order,
                 write_order, last_written, seen_at_start,
                 code_text, fn_in, fn_out>>

\* lines 145-147: the topic is looked for in the code and, when found,
\* written to last_topic
Extract(t) ==
  /\ pc[t] = "extracting"
  /\ LET ex == extract_topic_from_code(code[t])
     IN /\ IF ex.raised
           THEN /\ Fail(t)
                /\ calls' = [calls EXCEPT ![t].extractor = @ + 1]
                /\ UNCHANGED <<extracted, last_topic, write_order, last_written>>
           ELSE /\ extracted' = [extracted EXCEPT ![t] = ex.value]
                /\ UNCHANGED <<response, return_order>>
                /\ last_topic' = Overwrite(last_topic, ex.value)
                /\ IF Truthy(ex.value)
                   THEN /\ last_written' = [topic |-> ex.value, by |-> t]
                        /\ write_order' = Append(write_order, t)
                        /\ calls' = [calls EXCEPT ![t].extractor = @ + 1,
                                                  ![t].writes = @ + 1]
                        /\ pc' = [pc EXCEPT ![t] = "remembering"]
                   ELSE /\ calls' = [calls EXCEPT ![t].extractor = @ + 1]
                        /\ pc' = [pc EXCEPT ![t] = "responding"]
                        /\ UNCHANGED <<write_order, last_written>>
  /\ UNCHANGED <<sys_stdout, nreq, remembered_topic, code, explanation, buffer,
                 old_target, ip, result_var, fault, result, printed, start_order,
                 exec_order, seen_at_start,
                 code_text, fn_in, fn_out>>

\* line 148: the log line reads last_topic again
Remember(t) ==
  /\ pc[t] = "remembering"
  /\ buffer' = Written(<<"Remembering topic:", " ">> \o PyStr(last_topic) \o <<"\n">>)
  /\ calls' = [calls EXCEPT ![t].reads = @ + 1]
  /\ pc' = [pc EXCEPT ![t] = "responding"]
  /\ UNCHANGED <<last_topic, sys_stdout, nreq, remembered_topic, code, explanation,
                 old_target, ip, result_var, fault, result, extracted, response,
                 printed, start_order, exec_order, write_order,
                 return_order, last_written, seen_at_start,
                 code_text, fn_in, fn_out>>

\* lines 150-156: the payload is built, reading last_topic again
Respond(t) ==
  /\ pc[t] = "responding"
  /\ response' = [response EXCEPT ![t] =
                    [status |-> 200,
                     body |-> <<[prompt |-> Prompt,
                                 topic_in_use |-> TopicInUse(last_topic, extracted[t]),
                                 explanation |-> explanation[t],
                                 executed_code |-> code[t],
                                 result |-> result[t]]>>]]
  /\ calls' = [calls EXCEPT ![t].reads = @ + 1]
  /\ pc' = [pc EXCEPT ![t] = "done"]
  /\ return_order' = Append(return_order, t)
  /\ UNCHANGED <<last_topic, sys_stdout, nreq, remembered_topic, code, explanation,
                 buffer, old_target, ip, result_var, fault, result, extracted,
                 printed, start_order, exec_order, write_order,
                 last_written, seen_at_start,
                 code_text, fn_in, fn_out>>

Next ==
  \/ \E t \in Threads : Start(t)
  \/ \E t \in Threads : \E c \in Completions : Generate(t, c)
  \/ \E t \in Threads : EnterRedirect(t)
  \/ \E t \in Threads : ExecStmt(t)
  \/ \E t \in Threads : ExitRedirect(t)
  \/ \E t \in Threads : ReturnFromRun(t)
  \/ \E t \in Threads : Extract(t)
  \/ \E t \in Threads : Remember(t)
  \/ \E t \in Threads : Respond(t)

Spec == Init /\ [][Next]_vars

\* one completion for each path through kafka_agent: a transport error, a
\* text that is not JSON, an object without code, code that is not a string,
\* code that runs to its end without and with a topic, code that raises an
\* exception, code that raises SystemExit
PathCompletions ==
  { [fault |-> TRUE, content |-> <<>>],
    Reply(<<"Sorry">>),
    Reply(Object(<<"explanation:hi">>)),
    Reply(Object(<<"code:5">>)),
    Reply(Object(<<"code:N", "explanation:hi">>)),
    Reply(Fenced(JsonTag, <<"\n">>, Object(<<"code:A", "explanation:hi">>))),
    Reply(Object(<<"code:E", "explanation:hi">>)),
    Reply(Object(<<"code:X">>)) }

\* what a thread does once it has taken a request
Step(t) ==
  \/ \E c \in PathCompletions : Generate(t, c)
  \/ EnterRedirect(t)
  \/ ExecStmt(t)
  \/ ExitRedirect(t)
  \/ ReturnFromRun(t)
  \/ Extract(t)
  \/ Remember(t)
  \/ Respond(t)

\* a thread that has not handled a request yet takes one
StartOnce(t) == pc[t] = "idle" /\ Start(t)

NextFair ==
  \/ \E t \in Threads : StartOnce(t)
  \/ \E t \in Threads : Step(t)

\* one request per worker thread; every thread that has taken a request is
\* scheduled again and again, and the completion call and the executed code
\* return
SpecFair == Init /\ [][NextFair]_vars /\ \A t \in Threads : WF_vars(Step(t))

\* ------------------------------------------ the parser applied on its own
MaxMembers == 2

MemberSeqs == UNION {[1..n -> DOMAIN Members] : n \in 0..MaxMembers}
Pads == {<<>>, <<" ">>, <<"\n">>}
Tags == {<<>>, JsonTag, <<"J", "S", "O", "N">>, <<"J", "s", "o", "n">>, <<"j", "S", "o", "N">>}

\* texts that are a JSON object, and the ways of fencing one
ParseInputs ==
  { [doc |-> pad \o Object(ms) \o pad, tag |-> tag, sep |-> sep] :
      ms \in MemberSeqs, pad \in Pads, tag \in Tags, sep \in Pads }

InitParse ==
  /\ InitMain
  /\ fn_in \in ParseInputs
  /\ fn_out = <<>>

\* lines 98-112 applied to the text as it is and to the text in a fence
ParseBoth ==
  /\ fn_out = <<>>
  /\ fn_out' = <<[plain |-> ask_openai_for_code(fn_in.doc),
                  wrapped |-> ask_openai_for_code(Fenced(fn_in.tag, fn_in.sep, fn_in.doc))]>>
  /\ UNCHANGED <<last_topic, sys_stdout, nreq, pc, remembered_topic, code, explanation,
                 buffer, old_target, ip, result_var, fault, result, extracted,
                 response, calls, printed, code_text, start_order, exec_order,
                 write_order, return_order, last_written, seen_at_start, fn_in>>

NextParse == ParseBoth

SpecParse == InitParse /\ [][NextParse]_vars

\* --------------------------------------- the extractor applied on its own
MaxCodeLen == 6

\* "x" is a letter: next to topic_name it makes a longer identifier, between
\* quotes it is the content of a literal
CodeAlphabet == {"topic_name", "x", "=", " ", DQ, SQ}

CodeTexts == UNION {[1..n -> CodeAlphabet] : n \in 0..MaxCodeLen}

InitExtract ==
  /\ InitMain
  /\ fn_in \in CodeTexts
  /\ fn_out = <<>>

\* lines 50-53 applied to a code text
ExtractOnly ==
  /\ fn_out = <<>>
  /\ fn_out' = <<extract_topic_from_code(StrVal(fn_in))>>
  /\ UNCHANGED <<last_topic, sys_stdout, nreq, pc, remembered_topic, code, explanation,
                 buffer, old_target, ip, result_var, fault, result, extracted,
                 response, calls, printed, code_text, start_order, exec_order,
                 write_order, return_order, last_written, seen_at_start, fn_in>>

NextExtract == ExtractOnly

SpecExtract == InitExtract /\ [][NextExtract]_vars

\* ------------------------------------------------------------------ claims
TopicA == StrVal(<<"a">>)
TopicB == StrVal(<<"b">>)

\* thread t has left run_code_safely with a returned value
Returned(t) == InSeq(exec_order, t) /\ fault[t].kind # "exit"

\* the topic literal in the code of thread t
OwnTopic(t) == extract_topic_from_code(code[t]).value

BothDone(x, y) ==
  /\ x # y /\ pc[x] = "done" /\ pc[y] = "done"
  /\ extracted[x] = TopicA /\ extracted[y] = TopicB

\* C1 as amended: when two requests that extracted "a" and "b" have both
\* returned, last_topic is the topic of the one whose write to last_topic came
\* second, whatever the order in which they arrived, left run_code_safely or
\* returned.
C1_LastWriteWins ==
  \A x, y \in Threads :
    BothDone(x, y) =>
      /\ Before(write_order, x, y) => last_topic = TopicB
      /\ Before(write_order, y, x) => last_topic = TopicA

C1_Witness ==
  \E x, y \in Threads :
    /\ BothDone(x, y) /\ Before(write_order, x, y) /\ last_topic = TopicB
    /\ Before(start_order, y, x) /\ Before(exec_order, y, x)

\* C1 as stated: the order in which the two requests complete execution
\* (leave run_code_safely, and return) decides which topic is left.
C1_CompletionOrderWins ==
  \A x, y \in Threads :
    BothDone(x, y) =>
      /\ Before(exec_order, x, y) /\ Before(return_order, x, y) => last_topic = TopicB
      /\ Before(exec_order, y, x) /\ Before(return_order, y, x) => last_topic = TopicA

\* C2 as stated: the payload's topic_in_use of a request whose code assigns a
\* topic is the literal of its own code.
C2_OwnTopicInPayload ==
  \A t \in Threads :
    pc[t] = "done" /\ Truthy(OwnTopic(t)) =>
      response[t].body[1].topic_in_use = OwnTopic(t)

\* C3: a request that starts when the latest write to last_topic was made by a
\* request that extracted T and has completed is given T as remembered_topic.
C3_NextRequestReadsTopic ==
  \A t \in Threads :
    pc[t] # "idle" /\ seen_at_start[t].completed =>
      remembered_topic[t] = seen_at_start[t].topic

C3_Witness ==
  \E t \in Threads :
    /\ pc[t] = "executing" /\ seen_at_start[t].completed
    /\ remembered_topic[t] = TopicA

\* C4: a request whose completion has no code, or empty code, ends with
\* status 500 without a call to run_code_safely or extract_topic_from_code
\* and without a write to last_topic; no failed request has written last_topic.
C4_FailureWritesNothing ==
  \A t \in Threads :
    /\ pc[t] \notin {"idle", "generating"} /\ ~Truthy(code[t]) =>
         /\ pc[t] = "failed" /\ response[t] = Error500
         /\ calls[t].sandbox = 0 /\ calls[t].extractor = 0 /\ calls[t].writes = 0
    /\ pc[t] = "failed" => calls[t].writes = 0 /\ ~InSeq(write_order, t)

C4_Witness ==
  \E t \in Threads :
    /\ pc[t] = "failed" /\ code[t] = None /\ explanation[t] = StrVal(<<"hi">>)
    /\ calls[t].completion = 1 /\ last_topic = TopicA

\* C5 as stated: run_code_safely never raises, and returns a string starting
\* with the error prefix whenever the executed code failed.
C5_NeverRaises ==
  \A t \in Threads :
    InSeq(exec_order, t) =>
      /\ ~run_code_safely(buffer[t], result_var[t], fault[t]).raised
      /\ fault[t].kind # "none" => StartsWith(result[t], ErrorPrefix)

\* C6 as stated: a request whose code raised a fault ends DONE, its payload
\* carrying the error text, the explanation and the code of the completion,
\* and the topic assigned in the code has been written.
C6_FaultNotFatal ==
  \A t \in Threads :
    InSeq(exec_order, t) /\ fault[t].kind # "none" /\ code[t].t = "str" =>
      /\ pc[t] # "failed"
      /\ pc[t] = "done" =>
           /\ response[t].status = 200
           /\ response[t].body[1].result = result[t]
           /\ StartsWith(result[t], ErrorPrefix)
           /\ response[t].body[1].explanation = explanation[t]
           /\ response[t].body[1].executed_code = code[t]
           /\ Truthy(OwnTopic(t)) => calls[t].writes = 1

\* C7 as stated: the text executed code printed into the buffer of a request
\* is exactly the text the code of that request printed.
C7_OwnOutputOnly ==
  \A t \in Threads :
    Returned(t) /\ fault[t].kind = "none" => code_text[t] = printed[t]

\* C8 as amended: after a successful execution whose captured text is not
\* empty once the whitespace around it is stripped, run_code_safely returns
\* the stripped text, whether or not result was set.
C8_StrippedOutput ==
  \A t \in Threads :
    Returned(t) /\ fault[t].kind = "none" /\ Strip(buffer[t]) # <<>> =>
      result[t] = Strip(buffer[t])

C8_Witness ==
  \E t \in Threads :
    /\ Returned(t) /\ fault[t].kind = "none"
    /\ buffer[t] = <<"42", "\n">> /\ result_var[t] = IntVal(<<"7">>)
    /\ result[t] = <<"42">>

\* C8 as stated: after a successful execution that printed a text that is
\* not empty, run_code_safely returns the captured text.
C8_NonEmptyOutput ==
  \A t \in Threads :
    Returned(t) /\ fault[t].kind = "none" /\ printed[t] # <<>> /\ buffer[t] = printed[t] =>
      result[t] = Strip(buffer[t])

\* C9 as amended: after a successful execution that captured nothing,
\* run_code_safely returns the string form of result when the code defined
\* it, and the placeholder when the code did not define it.
C9_ResultFallback ==
  \A t \in Threads :
    Returned(t) /\ fault[t].kind = "none" /\ buffer[t] = <<>> =>
      result[t] = IF result_var[t] = Absent THEN NoResult ELSE PyStr(result_var[t])

C9_Witness ==
  \E x, y \in Threads :
    /\ Returned(x) /\ fault[x].kind = "none" /\ buffer[x] = <<>>
    /\ result_var[x] = None /\ result[x] = <<"None">>
    /\ Returned(y) /\ fault[y].kind = "none" /\ buffer[y] = <<>>
    /\ result_var[y] = Absent /\ result[y] = NoResult

\* C9 as stated: after a successful execution that printed nothing, the
\* string form of result is returned when the code defined it, and the
\* placeholder is returned exactly when the code did not define it.
C9_PlaceholderIffUndefined ==
  \A t \in Threads :
    Returned(t) /\ fault[t].kind = "none" /\ printed[t] = <<>> /\ buffer[t] = <<>> =>
      /\ result_var[t] # Absent => result[t] = PyStr(result_var[t])
      /\ result[t] = NoResult <=> result_var[t] = Absent

\* C10: a JSON object text in a fence, with or without a json tag in any
\* letter case, parses to the object the text parses to without the fence.
C10_FenceRoundTrip ==
  fn_out # <<>> =>
    /\ fn_out[1].plain.kind = "dict"
    /\ fn_out[1].wrapped = fn_out[1].plain

C10_Witness ==
  /\ fn_out # <<>>
  /\ fn_in.tag = <<"J", "S", "O", "N">> /\ fn_in.sep = <<"\n">>
  /\ fn_out[1].wrapped.kind = "dict"
  /\ fn_out[1].wrapped.code = StrVal(TextA)
  /\ fn_out[1].wrapped.explanation = StrVal(<<"hi">>)

\* the index of the first token equal to q at or after i, Len(s) + 1 when
\* there is none
RECURSIVE NextQuote(_, _, _)
NextQuote(s, i, q) ==
  IF i <= Len(s) /\ s[i] # q THEN NextQuote(s, i + 1, q) ELSE i

\* what starts at index i: "literal" when an assignment of a quoted literal
\* to the variable topic_name starts there (the identifier is topic_name and
\* not the end of a longer one, a single = follows, then a literal closed by
\* the quote that opened it), "open" when the literal is never closed, "no"
\* otherwise
AssignedAt(s, i) ==
  IF i > Len(s) \/ s[i] # "topic_name" \/ (i > 1 /\ s[i - 1] \in {"x", "topic_name"})
  THEN [kind |-> "no", contents |-> <<>>]
  ELSE LET j == SkipWs(s, i + 1) IN
       IF j > Len(s) \/ s[j] # "=" \/ (j < Len(s) /\ s[j + 1] = "=")
       THEN [kind |-> "no", contents |-> <<>>]
       ELSE LET k == SkipWs(s, j + 1) IN
            IF k > Len(s) \/ s[k] \notin Quotes
            THEN [kind |-> "no", contents |-> <<>>]
            ELSE LET m == NextQuote(s, k + 1, s[k]) IN
                 IF m > Len(s) THEN [kind |-> "open", contents |-> <<>>]
                 ELSE [kind |-> "literal", contents |-> SubSeq(s, k + 1, m - 1)]

RECURSIVE FirstAssigned(_, _)
FirstAssigned(s, i) ==
  IF i > Len(s) THEN [kind |-> "no", contents |-> <<>>]
  ELSE IF AssignedAt(s, i).kind # "no" THEN AssignedAt(s, i)
  ELSE FirstAssigned(s, i + 1)

\* C11 as stated: extract_topic_from_code returns None for a code text with no
\* assignment to topic_name, and otherwise the contents of the first quoted
\* literal assigned to topic_name, verbatim (texts whose first literal is
\* empty or never closed are left aside).
C11_FirstLiteralVerbatim ==
  fn_out # <<>> =>
    LET lit == FirstAssigned(fn_in, 1) IN
    CASE lit.kind = "literal" ->
           lit.contents # <<>> => fn_out[1].value = StrVal(lit.contents)
      [] lit.kind = "no" -> fn_out[1].value = None
      [] OTHER -> TRUE

\* C12 as stated: a request reads last_topic once, before the completion
\* call, writes it at most once, and touches it at no other point.
C12_SingleReadSingleWrite ==
  \A t \in Threads :
    pc[t] # "idle" => calls[t].reads = 1 /\ calls[t].writes <= 1

\* C13: within a request the completion service is called exactly once, the
\* executor runs at most once and only with the non-empty code of a parsed
\* completion, the extractor runs at most once and only after the executor
\* returned, and last_topic is written at most once and only after the
\* extractor returned a topic.
C13_StageOrder ==
  \A t \in Threads :
    /\ pc[t] = "generating" => calls[t].completion = 0
    /\ pc[t] \notin {"idle", "generating"} => calls[t].completion = 1
    /\ calls[t].sandbox <= 1
    /\ calls[t].sandbox = 1 => code[t] \notin {None, StrVal(<<>>)}
    /\ calls[t].extractor <= 1
    /\ calls[t].extractor = 1 => calls[t].sandbox = 1 /\ Returned(t)
    /\ calls[t].writes <= 1
    /\ calls[t].writes = 1 => calls[t].extractor = 1 /\ extracted[t] # None

C13_Witness ==
  \E t \in Threads :
    /\ pc[t] = "done" /\ calls[t].completion = 1 /\ calls[t].sandbox = 1
    /\ calls[t].extractor = 1 /\ calls[t].writes = 1

Terminal == {"done", "failed"}

\* the number of entries of s equal to x
Count(s, x) == Cardinality({i \in 1..Len(s) : s[i] = x})

\* a request has answered once it is DONE, with status 200 and a payload, or
\* FAILED, with status 500 and no payload, and not before
TerminalShape ==
  \A t \in Threads :
    /\ pc[t] = "done" => response[t].status = 200 /\ Len(response[t].body) = 1
    /\ pc[t] = "failed" => response[t] = Error500
    /\ pc[t] \notin Terminal => response[t] = NoResponse
    /\ Count(return_order, t) = IF pc[t] \in Terminal THEN 1 ELSE 0

\* a terminal request does nothing more: its thread stays as it is until it
\* takes the next request
TerminalStays ==
  \A t \in Threads :
    pc[t] \in Terminal =>
      \/ pc'[t] = pc[t] /\ response'[t] = response[t] /\ calls'[t] = calls[t]
      \/ pc'[t] = "generating" /\ nreq' = nreq + 1

\* C14: every request reaches a terminal state, DONE with a payload or FAILED
\* with one error and no payload, never both, and takes no step after it.
C14_OneTerminalState ==
  /\ []TerminalShape
  /\ [][TerminalStays]_vars
  /\ \A t \in Threads : (pc[t] = "generating") ~> (pc[t] \in Terminal)

C14_Witness ==
  \E x, y \in Threads :
    /\ pc[x] = "done" /\ response[x].status = 200 /\ Len(response[x].body) = 1
    /\ pc[y] = "failed" /\ response[y] = Error500 /\ calls[y].sandbox = 1

\* thread t handles a request whose code is a text without a topic literal
NoTopic(t) == code[t].t = "str" /\ code[t].v # <<>> /\ ~Truthy(OwnTopic(t))

\* the steps of extraction and of the payload for a request without a topic
NoTopicSteps ==
  \A t \in Threads :
    NoTopic(t) =>
      /\ pc[t] = "extracting" /\ pc'[t] # pc[t] =>
           pc'[t] = "responding" /\ last_topic' = last_topic
      /\ pc[t] = "responding" /\ pc'[t] # pc[t] =>
           /\ pc'[t] = "done" /\ response'[t].status = 200
           /\ response'[t].body[1].topic_in_use = last_topic
           /\ last_topic' = last_topic

C16_NeverAbsentAgain ==
  IF last_written.by = 0 THEN last_topic = None
  ELSE last_topic.t = "str" /\ last_topic.v # <<>>

C16_Witness ==
  \E x, y \in Threads :
    /\ x # y /\ pc[x] = "done" /\ NoTopic(x) /\ seen_at_start[x].topic = TopicB
    /\ last_written = [topic |-> TopicB, by |-> y]
    /\ last_topic = TopicB

\* C17 as stated: when no request is inside run_code_safely, sys.stdout is
\* the stream it was before any request entered it.
C17_StdoutRestored ==
  (\A t \in Threads : pc[t] \notin {"in_exec", "exiting", "after_exec"}) =>
    sys_stdout = Original
====
